---- MODULE Spec2Model ----
(***************************************************************************)
(* Model of the image processing pipeline (the S3-triggered Lambda of      *)
(* processor main.go) together with the object store, the notification     *)
(* source and the metadata table it talks to.                              *)
(*                                                                         *)
(* Object keys are sequences of path segments: "thumbnails/images/a" is    *)
(* <<"thumbnails", "images", "a">>, so that prefixing a key and testing a  *)
(* key for a prefix are what they are on the strings.                      *)
(* Object bodies are records [fmt, w, h, orig, gen, size]: the container   *)
(* format, the pixel dimensions, the picture they show, the number of      *)
(* lossy re-encodings the pixels went through and the byte length.         *)
(***************************************************************************)
EXTENDS Integers, Sequences, FiniteSets, TLC

\* ---------------------------------------------------------------- bounds
MaxUploads == 1          \* client uploads in one behaviour
MaxDeliveries == 2       \* notifications delivered in one behaviour, counting
                         \* each delivery of a notification that is delivered again

\* ------------------------------------------------------ program constants
ThumbnailWidth == 300
TicksPerSecond == 2

BucketName == "image-processor-source-975050162743"
ThumbnailPrefix == "thumbnails"

\* ------------------------------------------------------------ the universe
ClientKeys == {<<"images", "a">>}

Jpeg600 == [fmt |-> "jpeg", w |-> 600, h |-> 400, orig |-> "cat", gen |-> 0, size |-> 2048]
RawText == [fmt |-> "raw", w |-> 0, h |-> 0, orig |-> "txt", gen |-> 0, size |-> 7]
ClientBodies == {Jpeg600, RawText}

Dog == [name |-> "Dog", confidence |-> 805]
Cat == [name |-> "Cat", confidence |-> 912]
DetectorResponses == {<<>>, <<Dog, Cat>>}
\* what a DetectLabels call may answer: an error, or one of the responses
DetectorOutcomes ==
    {[failed |-> TRUE, labels |-> <<>>]} \cup
    {[failed |-> FALSE, labels |-> r] : r \in DetectorResponses}

\* an invocation holds at least one notification: no more than MaxDeliveries
\* invocations are ever in flight together
Slots == 1 .. MaxDeliveries

VARIABLES
    store,      \* object store: key -> body, for the keys that exist
    table,      \* metadata table: the set of stored items
    emitted,    \* created-notifications the object store has emitted
    inv,        \* per slot: the pipeline invocation running there
    now,        \* the latest reading of the wall clock, in half seconds
    uploads,    \* number of client uploads so far
    deliveries, \* number of notifications delivered so far
    thumbPuts,  \* history: every thumbnail Put the pipeline made
    request,    \* the request the API handler served last
    response,   \* the response it returned, or the panic it ended with
    presigned,  \* the presign calls it made for that request, in order, and how each ended
    issued,     \* history: the keys handleUpload issued, in order
    rateLimit,  \* the upload route's limiter: client IP -> count and resetAt
    admitted,   \* history: the requests the limiter let through, numbered per IP
    client,     \* the upload flow of the browser component
    gallery     \* the image list of the browser component, page by page

pipelineVars == <<store, table, emitted, inv, now, uploads, deliveries, thumbPuts>>
apiVars == <<request, response, presigned, issued>>
frontVars == <<rateLimit, admitted, client, gallery>>
vars == <<pipelineVars, apiVars, frontVars>>

\* --------------------------------------------------------------- helpers
NoErr == <<>>
NoBody == [fmt |-> "none", w |-> 0, h |-> 0, orig |-> "", gen |-> 0, size |-> 0]

\* an invocation: where it stands (pc), the batch and the index of the record
\* being processed, processS3Record's locals (imageBytes, labels, thumbnailKey),
\* the detector's raw answer for the record (detected), the error the handler
\* returned (err), the error that made the runtime deliver the batch again
\* (prevErr) and the steps taken so far (log)
IdleInv == [pc |-> "idle", batch |-> <<>>, idx |-> 0, imageBytes |-> NoBody,
            detected |-> <<>>, labels |-> <<>>, thumbnailKey |-> <<>>,
            err |-> NoErr, prevErr |-> NoErr, log |-> <<>>]

\* the S3 event record for an object that was just created
Notification(key, body) == [bucket |-> BucketName, key |-> key, size |-> body.size]

\* time.Now().UTC().Format(time.RFC3339): second precision
FormatRFC3339(t) == t \div TicksPerSecond

\* imaging.Decode: the formats the imaging library registers
Decodable(body) == body.fmt \in {"jpeg", "png", "gif", "tiff", "bmp"}

\* a resize that rounds the height down
ResizeHeightFloor(w, h) ==
    LET r == (h * ThumbnailWidth) \div w
    IN  IF r < 1 THEN 1 ELSE r

\* imaging.Resize(img, 300, 0, Lanczos): the height follows the aspect ratio,
\* rounded half up, and is at least 1
ResizeHeight(w, h) ==
    LET r == (2 * h * ThumbnailWidth + w) \div (2 * w)
    IN  IF r < 1 THEN 1 ELSE r

\* jpeg.Encode refuses images with a side of 2^16 pixels or more
EncodeOk(w, h) == w < 65536 /\ h < 65536

\* byte length of the JPEG encoding (a stand-in: grows with the pixel count)
JpegLen(w, h) == (w * h) \div 100 + 1

\* decode, resize, encode: the bytes generateAndUploadThumbnail uploads
ThumbnailBytes(body) ==
    LET h == ResizeHeight(body.w, body.h)
    IN  [fmt |-> "jpeg", w |-> ThumbnailWidth, h |-> h, orig |-> body.orig,
         gen |-> body.gen + 1, size |-> JpegLen(ThumbnailWidth, h)]

\* thumbnailKey := "thumbnails/" + key
ThumbnailKey(key) == <<ThumbnailPrefix>> \o key

\* a detectLabels that prepends each label instead of appending it
RECURSIVE ConvertLabelsReversed(_)
ConvertLabelsReversed(resp) ==
    IF resp = <<>> THEN <<>>
    ELSE ConvertLabelsReversed(Tail(resp))
         \o <<[name |-> Head(resp).name, confidence |-> Head(resp).confidence]>>

\* detectLabels: copies the detector's labels in order
RECURSIVE ConvertLabels(_)
ConvertLabels(resp) ==
    IF resp = <<>> THEN <<>>
    ELSE <<[name |-> Head(resp).name, confidence |-> Head(resp).confidence]>>
         \o ConvertLabels(Tail(resp))

\* the metadata item saveMetadata builds
ImageMetadata(bucket, key, size, labels, thumbnailKey, clock) ==
    [image_key |-> key, bucket_name |-> bucket, image_size |-> size,
     processed_at |-> FormatRFC3339(clock), detected_labels |-> labels,
     thumbnail_key |-> thumbnailKey]

\* a table whose primary key also has processed_at as its sort key
HashKeyWithSortKey(item) == <<item.image_key, item.processed_at>>

\* the table's primary key (hash_key = "image_key")
HashKey(item) == item.image_key

\* DynamoDB PutItem: replaces the item with the same primary key
PutItem(t, item) == {r \in t : HashKey(r) # HashKey(item)} \cup {item}

\* S3 PutObject: creates or overwrites the object
PutObject(s, key, body) == (key :> body) @@ s

\* an API request: method, raw path, query string parameters (absent ones are
\* empty) and what json.Unmarshal makes of the body
NoQuery == [page |-> <<>>, limit |-> <<>>, key |-> <<>>]
NoUploadBody == [valid |-> FALSE, contentType |-> "", size |-> 0]
\* before the API handler has served anything
NoRequest == [method |-> "", path |-> <<>>, query |-> NoQuery, body |-> NoUploadBody]
NoResponse == [status |-> 0, body |-> [raw |-> ""]]
\* const [status, setStatus] = useState('idle'): no upload is under way
NoClient == [status |-> "idle", key |-> <<>>, attempts |-> 0, found |-> FALSE]
\* the front end has served nothing and shows nothing
\* useState of the gallery: no page fetched yet; pages, more and totals keep
\* what each fetched page held, listed keys are the keys the table held when
\* page 1 was fetched, quiet says no record was written since then
NoGallery ==
    [limit |-> 0, pages |-> <<>>, more |-> <<>>, totalCount |-> 0, error |-> FALSE,
     listed |-> {}, quiet |-> TRUE]
InitFront ==
    /\ rateLimit = <<>>
    /\ admitted = {}
    /\ client = NoClient
    /\ gallery = NoGallery


\* --------------------------------------------------- the pipeline's steps
Cur(i) == inv[i].batch[inv[i].idx]

LogStep(i, step, ok) == Append(inv[i].log, [rec |-> inv[i].idx, step |-> step, ok |-> ok])

\* a HandleS3Event that logs the error and goes on with the other records
FailRecordContinue(i, step, chain) ==
    IF inv[i].idx < Len(inv[i].batch)
    THEN [inv[i] EXCEPT !.pc = "download", !.idx = @ + 1, !.imageBytes = NoBody,
                        !.detected = <<>>, !.labels = <<>>, !.thumbnailKey = <<>>,
                        !.log = LogStep(i, step, FALSE)]
    ELSE [inv[i] EXCEPT !.pc = "returned",
                        !.err = <<"failed to process record">> \o chain,
                        !.log = LogStep(i, step, FALSE)]

\* a pipeline that calls the failed collaborator again
FailRecordRetry(i, step, chain) ==
    [inv[i] EXCEPT !.log = LogStep(i, step, FALSE)]

\* processS3Record returns the step's error and HandleS3Event returns it,
\* wrapped, for the whole batch
FailRecord(i, step, chain) ==
    [inv[i] EXCEPT !.pc = "returned",
                   !.err = <<"failed to process record">> \o chain,
                   !.log = LogStep(i, step, FALSE)]

\* HandleS3Event: the record succeeded; go on with the next one, or return nil
NextRecord(i, step) ==
    IF inv[i].idx < Len(inv[i].batch)
    THEN [inv[i] EXCEPT !.pc = "download", !.idx = @ + 1, !.imageBytes = NoBody,
                        !.detected = <<>>, !.labels = <<>>, !.thumbnailKey = <<>>,
                        !.log = LogStep(i, step, TRUE)]
    ELSE [inv[i] EXCEPT !.pc = "returned", !.err = NoErr, !.imageBytes = NoBody,
                        !.detected = <<>>, !.labels = <<>>, !.thumbnailKey = <<>>,
                        !.log = LogStep(i, step, TRUE)]

\* a processS3Record that goes on to the detector with no bytes
DownloadFailedIgnored(i, outcome) ==
    [inv[i] EXCEPT !.pc = "detect", !.imageBytes = NoBody,
                   !.log = LogStep(i, "Download", FALSE)]

\* processS3Record, step 1: downloadImage returned an error
DownloadFailed(i, outcome) ==
    FailRecord(i, "Download",
        <<"failed to download image",
          IF outcome = "read" THEN "failed to read S3 object body"
          ELSE "S3 GetObject failed">>)

\* a processS3Record that logs the thumbnail's failure and goes on with an
\* empty thumbnail key
ThumbnailFailedContinue(i, step, cause) ==
    [inv[i] EXCEPT !.pc = "save", !.thumbnailKey = <<>>,
                   !.log = LogStep(i, step, FALSE)]

\* processS3Record, step 3: generateAndUploadThumbnail returned an error
ThumbnailFailed(i, step, cause) ==
    FailRecord(i, step, <<"failed to generate thumbnail", cause>>)

\* a client PUTs an object through a presigned URL; the bucket notifies
Upload(key, body) ==
    /\ uploads < MaxUploads
    /\ store' = PutObject(store, key, body)
    /\ emitted' = emitted \cup {Notification(key, body)}
    /\ uploads' = uploads + 1
    /\ UNCHANGED <<table, inv, now, deliveries, thumbPuts>>
    /\ UNCHANGED <<apiVars, frontVars>>

\* the notification source invokes the handler with a batch; the invocation
\* takes the first free slot
Invoke(i, batch) ==
    /\ inv[i].pc = "idle"
    /\ \A j \in Slots : j < i => inv[j].pc # "idle"
    /\ deliveries + Len(batch) <= MaxDeliveries
    /\ deliveries' = deliveries + Len(batch)
    /\ inv' = [inv EXCEPT ![i] = [IdleInv EXCEPT !.pc = "download", !.batch = batch,
                                                !.idx = 1]]
    /\ UNCHANGED <<store, table, emitted, now, uploads, thumbPuts>>
    /\ UNCHANGED <<apiVars, frontVars>>

\* processS3Record, step 1: downloadImage
Download(i, outcome) ==
    /\ inv[i].pc = "download"
    /\ inv' = [inv EXCEPT ![i] =
         IF outcome = "ok" /\ Cur(i).key \in DOMAIN store
         THEN [inv[i] EXCEPT !.pc = "detect", !.imageBytes = store[Cur(i).key],
                             !.log = LogStep(i, "Download", TRUE)]
         ELSE DownloadFailed(i, outcome)]
    /\ UNCHANGED <<store, table, emitted, now, uploads, deliveries, thumbPuts>>
    /\ UNCHANGED <<apiVars, frontVars>>

\* processS3Record, step 2: detectLabels
Detect(i, resp) ==
    /\ inv[i].pc = "detect"
    /\ inv' = [inv EXCEPT ![i] =
         IF ~resp.failed
         THEN [inv[i] EXCEPT !.pc = "thumbnail", !.detected = resp.labels,
                             !.labels = ConvertLabels(resp.labels),
                             !.log = LogStep(i, "Detect", TRUE)]
         ELSE FailRecord(i, "Detect",
                <<"failed to detect labels", "Rekognition DetectLabels failed">>)]
    /\ UNCHANGED <<store, table, emitted, now, uploads, deliveries, thumbPuts>>
    /\ UNCHANGED <<apiVars, frontVars>>

\* processS3Record, step 3: generateAndUploadThumbnail; the bucket notifies of
\* the thumbnail it stored
Thumbnail(i, putOk) ==
    /\ inv[i].pc = "thumbnail"
    /\ LET body == inv[i].imageBytes
           key == Cur(i).key
           thumb == ThumbnailBytes(body)
       IN  IF ~Decodable(body)
           THEN /\ inv' = [inv EXCEPT ![i] =
                             ThumbnailFailed(i, "Decode", "failed to decode image")]
                /\ UNCHANGED <<store, emitted, thumbPuts>>
           ELSE IF ~EncodeOk(thumb.w, thumb.h)
           THEN /\ inv' = [inv EXCEPT ![i] =
                             ThumbnailFailed(i, "Encode", "failed to encode thumbnail")]
                /\ UNCHANGED <<store, emitted, thumbPuts>>
           ELSE IF ~putOk
           THEN /\ inv' = [inv EXCEPT ![i] =
                             ThumbnailFailed(i, "ThumbnailPut",
                                             "failed to upload thumbnail to S3")]
                /\ UNCHANGED <<store, emitted, thumbPuts>>
           ELSE /\ store' = PutObject(store, ThumbnailKey(key), thumb)
                /\ emitted' = emitted \cup {Notification(ThumbnailKey(key), thumb)}
                /\ thumbPuts' = thumbPuts \cup
                      {[src |-> key, from |-> body, dst |-> ThumbnailKey(key),
                        bytes |-> thumb]}
                /\ inv' = [inv EXCEPT ![i] =
                      [inv[i] EXCEPT !.pc = "save", !.thumbnailKey = ThumbnailKey(key),
                                     !.log = LogStep(i, "ThumbnailPut", TRUE)]]
    /\ UNCHANGED <<table, now, uploads, deliveries>>
    /\ UNCHANGED <<apiVars, frontVars>>

\* a saveMetadata that deletes the thumbnail when its PutItem fails
SaveWithRollback(i, putOk, t) ==
    /\ inv[i].pc = "save"
    /\ t \in {now, now + 1}
    /\ now' = t
    /\ LET n == Cur(i)
           item == ImageMetadata(n.bucket, n.key, n.size, inv[i].labels,
                                 inv[i].thumbnailKey, t)
       IN  IF putOk
           THEN /\ table' = PutItem(table, item)
                /\ inv' = [inv EXCEPT ![i] = NextRecord(i, "MetadataPut")]
                /\ UNCHANGED store
           ELSE /\ inv' = [inv EXCEPT ![i] = FailRecord(i, "MetadataPut",
                             <<"failed to save metadata", "DynamoDB PutItem failed">>)]
                /\ store' = [k \in DOMAIN store \ {inv[i].thumbnailKey} |-> store[k]]
                /\ UNCHANGED table
    /\ UNCHANGED <<emitted, uploads, deliveries, thumbPuts>>
    /\ UNCHANGED <<apiVars, frontVars>>

\* processS3Record, step 4: saveMetadata; t is what time.Now() reads, and the
\* clock never runs backwards
Save(i, putOk, t) ==
    /\ inv[i].pc = "save"
    /\ t \in {now, now + 1}
    /\ now' = t
    /\ LET n == Cur(i)
           item == ImageMetadata(n.bucket, n.key, n.size, inv[i].labels,
                                 inv[i].thumbnailKey, t)
       IN  IF putOk
           THEN /\ table' = PutItem(table, item)
                /\ inv' = [inv EXCEPT ![i] = NextRecord(i, "MetadataPut")]
           ELSE /\ inv' = [inv EXCEPT ![i] = FailRecord(i, "MetadataPut",
                             <<"failed to save metadata", "DynamoDB PutItem failed">>)]
                /\ UNCHANGED table
    /\ UNCHANGED <<store, emitted, uploads, deliveries, thumbPuts>>
    /\ UNCHANGED <<apiVars, frontVars>>

\* the Lambda runtime delivers again a batch whose invocation returned an error
Retry(i) ==
    /\ inv[i].pc = "returned"
    /\ inv[i].err # NoErr
    /\ deliveries + Len(inv[i].batch) <= MaxDeliveries
    /\ deliveries' = deliveries + Len(inv[i].batch)
    /\ inv' = [inv EXCEPT ![i] = [IdleInv EXCEPT !.pc = "download", !.batch = inv[i].batch,
                                                !.idx = 1, !.prevErr = inv[i].err]]
    /\ UNCHANGED <<store, table, emitted, now, uploads, thumbPuts>>
    /\ UNCHANGED <<apiVars, frontVars>>

\* the invocation is over
Release(i) ==
    /\ inv[i].pc = "returned"
    /\ inv' = [inv EXCEPT ![i] = IdleInv]
    /\ UNCHANGED <<store, table, emitted, now, uploads, deliveries, thumbPuts>>
    /\ UNCHANGED <<apiVars, frontVars>>

\* the batches the notification source may still deliver
Batches == UNION {[1 .. n -> emitted] : n \in 1 .. (MaxDeliveries - deliveries)}

Init ==
    /\ store = <<>>
    /\ table = {}
    /\ emitted = {}
    /\ inv = [i \in Slots |-> IdleInv]
    /\ now = 0
    /\ uploads = 0
    /\ deliveries = 0
    /\ thumbPuts = {}
    /\ request = NoRequest
    /\ response = NoResponse
    /\ presigned = <<>>
    /\ issued = <<>>
    /\ InitFront

Next ==
    \/ \E key \in ClientKeys, body \in ClientBodies : Upload(key, body)
    \/ \E i \in Slots, batch \in Batches : Invoke(i, batch)
    \/ \E i \in Slots, outcome \in {"ok", "get", "read"} : Download(i, outcome)
    \/ \E i \in Slots, resp \in DetectorOutcomes : Detect(i, resp)
    \/ \E i \in Slots, putOk \in BOOLEAN : Thumbnail(i, putOk)
    \/ \E i \in Slots, putOk \in BOOLEAN, t \in {now, now + 1} : Save(i, putOk, t)
    \/ \E i \in Slots : Retry(i)
    \/ \E i \in Slots : Release(i)

Spec == Init /\ [][Next]_vars

\* ------------------------------------------------ the Query/Signing Service
\* Model of the API Lambda (api main.go).  The strings it cuts, formats, parses
\* or orders (paths, object keys, query values) are sequences of ASCII codes,
\* so that a prefix, a decimal rendering and the byte order of two strings are
\* what they are in the program.  Response bodies are kept as the values that
\* json.Marshal is given.

\* bounds
MaxRecords == 4          \* records in the metadata table when the service runs
ScanPageItems == 3       \* records that fit in one Scan response (1 MB)
MaxTickets == 2          \* upload tickets issued in one behaviour
IntBits == 8             \* width of int, scaled down from the 64 of the build

\* program constants
DefaultLimit == 10
DefaultPage == 1
ReadUrlExpiry == 3600    \* time.Hour, in seconds
UploadUrlExpiry == 900   \* 15 * time.Minute, in seconds

\* the first clock reading of a behaviour of the service: every reading of the
\* model has two decimal digits, as every reading of the build has nineteen
ClockStart == 10

ApiPrefix == <<47, 97, 112, 105>>                              \* "/api"
ImagesPath == <<47, 105, 109, 97, 103, 101, 115>>               \* "/images"
UploadPath == <<47, 117, 112, 108, 111, 97, 100>>               \* "/upload"
ImageUrlPath == <<47, 105, 109, 97, 103, 101, 45, 117, 114, 108>> \* "/image-url"
ImagesDir == <<105, 109, 97, 103, 101, 115, 47>>                \* "images/"
ImageSuffix == <<45, 105, 109, 97, 103, 101>>                   \* "-image"
ThumbnailsDir == <<116, 104, 117, 109, 98, 110, 97, 105, 108, 115, 47>> \* "thumbnails/"

MaxInt == 2 ^ (IntBits - 1) - 1

\* the value an int holds after an arithmetic operation whose result is n
WrapInt(n) == ((n + MaxInt + 1) % (2 ^ IntBits)) - (MaxInt + 1)

\* the decimal rendering of n >= 0 (fmt's %d)
RECURSIVE Itoa(_)
Itoa(n) == IF n < 10 THEN <<48 + n>> ELSE Itoa(n \div 10) \o <<48 + (n % 10)>>

\* the digits of strconv.Atoi's argument: their value, or -1 for a character
\* that is no digit or a value beyond the range of int
RECURSIVE ParseDigits(_, _)
ParseDigits(s, acc) ==
    IF s = <<>> THEN acc
    ELSE IF Head(s) \notin 48 .. 57 THEN -1
    ELSE LET v == acc * 10 + (Head(s) - 48)
         IN  IF v > MaxInt + 1 THEN -1 ELSE ParseDigits(Tail(s), v)

\* strconv.Atoi: an optional sign and decimal digits, within the range of int
Atoi(s) ==
    LET signed == s # <<>> /\ s[1] \in {43, 45}
        neg == s # <<>> /\ s[1] = 45
        digits == IF signed THEN Tail(s) ELSE s
        u == IF digits = <<>> THEN -1 ELSE ParseDigits(digits, 0)
    IN  IF u = -1 \/ (~neg /\ u > MaxInt)
        THEN [ok |-> FALSE, val |-> 0]
        ELSE [ok |-> TRUE, val |-> IF neg THEN 0 - u ELSE u]

\* a < b on Go strings: byte by byte, a proper prefix first
RECURSIVE StrLess(_, _)
StrLess(a, b) ==
    IF b = <<>> THEN FALSE
    ELSE IF a = <<>> THEN TRUE
    ELSE IF Head(a) # Head(b) THEN Head(a) < Head(b)
    ELSE StrLess(Tail(a), Tail(b))

\* strings.HasPrefix on these strings
StrHasPrefix(s, prefix) ==
    Len(s) >= Len(prefix) /\ SubSeq(s, 1, Len(prefix)) = prefix

\* the record the pipeline stores for the object "images/<n>"
StoredKey(n) == ImagesDir \o Itoa(n)
\* the first record dates from before the pipeline made thumbnails
StoredItem(n) ==
    ImageMetadata(BucketName, StoredKey(n), Jpeg600.size, ConvertLabels(<<Dog, Cat>>),
                  IF n = 1 THEN <<>> ELSE ThumbnailsDir \o StoredKey(n), 0)
StoredTable(n) == {StoredItem(i) : i \in 1 .. n}

\* DynamoDB Scan, called once: all the items when they fit in one response,
\* otherwise the items of one response, whichever they are; or an error
ScanResults(t) ==
    {[failed |-> TRUE, items |-> {}]} \cup
    {[failed |-> FALSE, items |-> s] :
        s \in IF Cardinality(t) <= ScanPageItems THEN {t}
              ELSE {u \in SUBSET t : Cardinality(u) = ScanPageItems}}

\* sort.Slice(items, keyI > keyJ): image_key descending
RECURSIVE SortItems(_)
SortItems(S) ==
    IF S = {} THEN <<>>
    ELSE LET m == CHOOSE x \in S :
                    \A y \in S \ {x} : StrLess(y.image_key, x.image_key)
         IN  <<m>> \o SortItems(S \ {m})

ErrorBody(message) == [error |-> message]
EmptyBody == [raw |-> ""]
Response(status, body) == [status |-> status, body |-> body]
\* the handler did not return: a run-time panic ended the invocation
Panic(message) == [status |-> 0, body |-> [panic |-> message]]

\* a read URL that lives as long as an upload URL
PresignGetObjectShort(key) ==
    [op |-> "GetObject", bucket |-> BucketName, key |-> key,
     contentType |-> "", expires |-> UploadUrlExpiry]

\* what a presign call is given, and the URL it answers with
PresignGetObject(key) ==
    [op |-> "GetObject", bucket |-> BucketName, key |-> key,
     contentType |-> "", expires |-> ReadUrlExpiry]
PresignPutObject(key, contentType) ==
    [op |-> "PutObject", bucket |-> BucketName, key |-> key,
     contentType |-> contentType, expires |-> UploadUrlExpiry]

\* a dispatch on the raw path
StripApiPrefixNever(path) == path

\* path[4:] when the path is longer than "/api" and starts with it
StripApiPrefix(path) ==
    IF Len(path) > 4 /\ SubSeq(path, 1, 4) = ApiPrefix
    THEN SubSeq(path, 5, Len(path))
    ELSE path

\* HandleRequest's dispatch
Route(method, path) ==
    LET p == StripApiPrefix(path)
    IN  IF method = "OPTIONS" THEN "preflight"
        ELSE IF p = ImagesPath /\ method = "GET" THEN "handleGetImages"
        ELSE IF p = UploadPath /\ method = "POST" THEN "handleUpload"
        ELSE IF p = ImageUrlPath /\ method = "GET" THEN "handleGetImageURL"
        ELSE "notFound"

\* a positive integer query parameter, or its default
QueryInt(value, default) ==
    LET a == Atoi(value)
    IN  IF value # <<>> /\ a.ok /\ a.val > 0 THEN a.val ELSE default

\* a signing loop that prefers the original to its thumbnail
DisplayKeyOriginal(item) ==
    IF item.image_key # <<>> THEN item.image_key ELSE item.thumbnail_key

\* the key handleGetImages signs for an item: the thumbnail's when it has one
DisplayKey(item) ==
    IF item.thumbnail_key # <<>> THEN item.thumbnail_key ELSE item.image_key

\* a signing loop that gives an item an empty url when presigning fails
SignItemEmptyUrl(item, failing) ==
    IF DisplayKey(item) # <<>> /\ DisplayKey(item) \notin failing
    THEN [url |-> PresignGetObject(DisplayKey(item))] @@ item
    ELSE [url |-> PresignGetObject(<<>>)] @@ item

\* the signing loop, for one item: the url is attached when presigning succeeds
SignItem(item, failing) ==
    IF DisplayKey(item) # <<>> /\ DisplayKey(item) \notin failing
    THEN [url |-> PresignGetObject(DisplayKey(item))] @@ item
    ELSE item

\* the signing loop: the items of the page, in order
SignItems(pagedItems, failing) ==
    [i \in 1 .. Len(pagedItems) |-> SignItem(pagedItems[i], failing)]

\* a presign call the handler made, and whether it succeeded
Presigned(call, ok) == [call |-> call, ok |-> ok]

\* the presign calls of the signing loop, in order
PresignCalls(pagedItems, failing) ==
    LET signable == SelectSeq(pagedItems, LAMBDA item : DisplayKey(item) # <<>>)
    IN  [i \in 1 .. Len(signable) |->
            Presigned(PresignGetObject(DisplayKey(signable[i])),
                      DisplayKey(signable[i]) \notin failing)]

\* what a handler leaves behind: its response, its presign calls and the key
\* of the ticket it issued
Outcome(resp, calls, keys) == [response |-> resp, presigned |-> calls, keys |-> keys]

\* handleGetImages
HandleGetImages(query, scan, failing) ==
    IF scan.failed
    THEN Outcome(Response(500, ErrorBody("Failed to fetch images")), <<>>, <<>>)
    ELSE
    LET items == SortItems(scan.items)
        limit == QueryInt(query.limit, DefaultLimit)
        page == QueryInt(query.page, DefaultPage)
        totalItems == Len(items)
        start == WrapInt((page - 1) * limit)
        end == WrapInt(start + limit)
        clamped == IF end > totalItems THEN totalItems ELSE end
        Answer(pagedItems, e) ==
            Outcome(Response(200, [items |-> SignItems(pagedItems, failing),
                                   total_count |-> totalItems, page |-> page,
                                   limit |-> limit, has_more |-> e < totalItems]),
                    PresignCalls(pagedItems, failing), <<>>)
    IN  IF start < totalItems
        THEN IF start < 0 \/ clamped < start
             THEN Outcome(Panic("slice bounds out of range"), <<>>, <<>>)
             ELSE Answer(SubSeq(items, start + 1, clamped), clamped)
        ELSE Answer(<<>>, end)

\* an allow-list that lets every named content type through
AllowedContentTypeAny(contentType) == contentType # ""

\* the content types handleUpload lets through
AllowedContentType(contentType) == contentType \in {"image/jpeg", "image/png"}

\* fmt.Sprintf("images/%d-%s", time.Now().UnixNano(), "image")
UploadKey(t) == ImagesDir \o Itoa(t) \o ImageSuffix

\* handleUpload reads the clock once it has let the body through
ReadsClock(body) == body.valid /\ AllowedContentType(body.contentType)

\* a handleUpload that names the object after the declared content type
HandleUploadNamedByType(body, t, signOk) ==
    IF ~body.valid
    THEN Outcome(Response(400, ErrorBody("Invalid request body")), <<>>, <<>>)
    ELSE IF ~AllowedContentType(body.contentType)
    THEN Outcome(Response(400, ErrorBody("Only JPEG and PNG images are allowed")),
                 <<>>, <<>>)
    ELSE LET key == ImagesDir \o Itoa(t) \o
                      (IF body.contentType = "image/png" THEN <<46, 112, 110, 103>>
                       ELSE <<46, 106, 112, 103>>)
             call == PresignPutObject(key, body.contentType)
         IN  IF ~signOk
             THEN Outcome(Response(500, ErrorBody("Failed to generate upload URL")),
                          <<Presigned(call, FALSE)>>, <<>>)
             ELSE Outcome(Response(200, [uploadUrl |-> call, key |-> key]),
                          <<Presigned(call, TRUE)>>, <<key>>)

\* handleUpload
HandleUpload(body, t, signOk) ==
    IF ~body.valid
    THEN Outcome(Response(400, ErrorBody("Invalid request body")), <<>>, <<>>)
    ELSE IF ~AllowedContentType(body.contentType)
    THEN Outcome(Response(400, ErrorBody("Only JPEG and PNG images are allowed")),
                 <<>>, <<>>)
    ELSE LET key == UploadKey(t)
             call == PresignPutObject(key, body.contentType)
         IN  IF ~signOk
             THEN Outcome(Response(500, ErrorBody("Failed to generate upload URL")),
                          <<Presigned(call, FALSE)>>, <<>>)
             ELSE Outcome(Response(200, [uploadUrl |-> call, key |-> key]),
                          <<Presigned(call, TRUE)>>, <<key>>)

\* handleGetImageURL
HandleGetImageURL(query, signOk) ==
    IF query.key = <<>>
    THEN Outcome(Response(400, ErrorBody("Missing key parameter")), <<>>, <<>>)
    ELSE LET call == PresignGetObject(query.key)
         IN  IF ~signOk
             THEN Outcome(Response(500, ErrorBody("Failed to generate image URL")),
                          <<Presigned(call, FALSE)>>, <<>>)
             ELSE Outcome(Response(200, [url |-> call]), <<Presigned(call, TRUE)>>, <<>>)

\* a handler that reserves the key of the ticket it issues with an empty object
ServedReservingKey(method, path, query, body, out) ==
    /\ request' = [method |-> method, path |-> path, query |-> query, body |-> body]
    /\ response' = out.response
    /\ presigned' = out.presigned
    /\ issued' = issued \o out.keys
    /\ UNCHANGED frontVars
    /\ store' = IF out.keys = <<>> THEN store ELSE PutObject(store, out.keys[1], NoBody)
    /\ UNCHANGED <<table, emitted, inv, uploads, deliveries, thumbPuts>>

\* the handler returns (or panics): nothing of the stores is written
Served(method, path, query, body, out) ==
    /\ request' = [method |-> method, path |-> path, query |-> query, body |-> body]
    /\ response' = out.response
    /\ presigned' = out.presigned
    /\ issued' = issued \o out.keys
    /\ UNCHANGED frontVars
    /\ UNCHANGED <<store, table, emitted, inv, uploads, deliveries, thumbPuts>>

\* GET /images
GetImages(method, path, query, scan, failing) ==
    /\ Route(method, path) = "handleGetImages"
    /\ scan \in ScanResults(table)
    /\ Served(method, path, query, NoUploadBody, HandleGetImages(query, scan, failing))
    /\ UNCHANGED now

\* POST /upload; t is what time.Now() reads
PostUpload(method, path, body, t, signOk) ==
    /\ Route(method, path) = "handleUpload"
    /\ t \in {now, now + 1}
    /\ t <= ClockStart + MaxTickets
    /\ LET out == HandleUpload(body, t, signOk)
       IN  /\ out.keys # <<>> => Len(issued) < MaxTickets
           /\ Served(method, path, NoQuery, body, out)
    /\ now' = IF ReadsClock(body) THEN t ELSE now

\* GET /image-url
GetImageURL(method, path, query, signOk) ==
    /\ Route(method, path) = "handleGetImageURL"
    /\ Served(method, path, query, NoUploadBody, HandleGetImageURL(query, signOk))
    /\ UNCHANGED now

\* OPTIONS on any path
Preflight(method, path) ==
    /\ Route(method, path) = "preflight"
    /\ Served(method, path, NoQuery, NoUploadBody,
              Outcome(Response(200, EmptyBody), <<>>, <<>>))
    /\ UNCHANGED now

\* any other method and path
NotFound(method, path) ==
    /\ Route(method, path) = "notFound"
    /\ Served(method, path, NoQuery, NoUploadBody,
              Outcome(Response(404, ErrorBody("Not Found")), <<>>, <<>>))
    /\ UNCHANGED now

\* the size above which the upload client refuses a file
MaxUploadBytes == 5 * 1024 * 1024

\* the requests of a behaviour
Methods == {"GET", "POST", "OPTIONS"}
Paths == {ImagesPath, UploadPath, ImageUrlPath, ApiPrefix \o ImageUrlPath, ApiPrefix}
\* absent, "0" and "x" or "-1", small numbers and numbers near the end of int's
\* range
PageValues == {<<>>, <<48>>, <<120>>} \cup {Itoa(n) : n \in {2, 3, (MaxInt + 1) \div 2 + 1}}
LimitValues == {<<>>, <<45, 49>>} \cup {Itoa(n) : n \in {2, MaxInt}}
ListQueries ==
    {[page |-> p, limit |-> l, key |-> <<>>] : p \in PageValues, l \in LimitValues}
\* the query the client polls with: the key of a record it waits for
LookupQueries ==
    {[page |-> <<>>, limit |-> <<>>, key |-> StoredKey(n)] : n \in {1, MaxRecords + 1}}
\* what the upload client sends: the file's type and its size in bytes
UploadBodies ==
    {NoUploadBody} \cup
    {[valid |-> TRUE, contentType |-> c, size |-> n] :
        c \in {"", "image/jpeg", "image/png", "image/bmp"}, n \in {Jpeg600.size, MaxUploadBytes}}
\* the keys whose presign call fails while a page is signed: none, one, or all
SignFailures ==
    LET keys == {DisplayKey(r) : r \in table}
    IN  {{}, keys} \cup {{k} : k \in keys}

InitApi ==
    /\ store = <<>>
    /\ table \in {StoredTable(n) : n \in 0 .. MaxRecords}
    /\ emitted = {}
    /\ inv = [i \in Slots |-> IdleInv]
    /\ now = ClockStart
    /\ uploads = 0
    /\ deliveries = 0
    /\ thumbPuts = {}
    /\ request = NoRequest
    /\ response = NoResponse
    /\ presigned = <<>>
    /\ issued = <<>>
    /\ InitFront

\* the service answering listing requests
NextQuery ==
    \E method \in Methods, path \in Paths :
        /\ Route(method, path) = "handleGetImages"
        /\ \E query \in ListQueries \cup LookupQueries,
              scan \in ScanResults(table), failing \in SignFailures :
                GetImages(method, path, query, scan, failing)

SpecQuery == InitApi /\ [][NextQuery]_vars

\* the service answering the other requests
NextSigning ==
    \/ \E method \in Methods, path \in Paths, body \in UploadBodies,
          t \in {now, now + 1}, signOk \in BOOLEAN :
            PostUpload(method, path, body, t, signOk)
    \/ \E method \in Methods, path \in Paths, query \in LookupQueries \cup {NoQuery},
          signOk \in BOOLEAN :
            GetImageURL(method, path, query, signOk)
    \/ \E method \in Methods, path \in Paths : Preflight(method, path)
    \/ \E method \in Methods, path \in Paths : NotFound(method, path)

SpecSigning == InitApi /\ [][NextSigning]_vars

\* the whole service: every route, with the listing requests a client sends
\* without page or limit
NextService ==
    \/ NextSigning
    \/ \E method \in Methods, path \in Paths :
          /\ Route(method, path) = "handleGetImages"
          /\ \E query \in LookupQueries \cup {NoQuery}, scan \in ScanResults(table),
                failing \in {{}, {DisplayKey(r) : r \in table}} :
                  GetImages(method, path, query, scan, failing)

SpecService == InitApi /\ [][NextService]_vars

\* ------------------------------------------- the pipeline on stored objects
\* objects of several formats and shapes: narrower than the thumbnail, wider,
\* very wide and very tall
ObjectFormats == {"jpeg", "gif"}
ObjectWidths == {1, 150, 400, 601}
ObjectHeights == {1, 2, 400}
StoredBodies ==
    {RawText} \cup
    {[fmt |-> f, w |-> w, h |-> h, orig |-> "cat", gen |-> 0, size |-> JpegLen(w, h)] :
        f \in ObjectFormats, w \in ObjectWidths, h \in ObjectHeights}

\* a client has put one object, and the bucket has notified of it
InitStored ==
    \E key \in ClientKeys, body \in StoredBodies :
        /\ store = PutObject(<<>>, key, body)
        /\ table = {}
        /\ emitted = {Notification(key, body)}
        /\ inv = [i \in Slots |-> IdleInv]
        /\ now = 0
        /\ uploads = 1
        /\ deliveries = 0
        /\ thumbPuts = {}
        /\ request = NoRequest
        /\ response = NoResponse
        /\ presigned = <<>>
        /\ issued = <<>>
        /\ InitFront

\* the invocations the notifications set off, each from its start to its return
NextStored ==
    \/ \E i \in Slots, batch \in Batches : Invoke(i, batch)
    \/ \E i \in Slots, outcome \in {"ok", "get", "read"} : Download(i, outcome)
    \/ \E i \in Slots, resp \in DetectorOutcomes : Detect(i, resp)
    \/ \E i \in Slots, putOk \in BOOLEAN : Thumbnail(i, putOk)
    \/ \E i \in Slots, putOk \in BOOLEAN, t \in {now, now + 1} : Save(i, putOk, t)

SpecStored == InitStored /\ [][NextStored]_vars

\* ------------------------------------------------- the invocation's context
\* an SDK call whose context is cancelled returns the context's error
ContextCanceled == "context canceled"

\* a pipeline that returns the context's error bare
CanceledBare(chain) == <<ContextCanceled>>

\* fmt.Errorf("...: %w", err) at each level: the step's messages wrap the cause
Canceled(chain) == chain \o <<ContextCanceled>>

\* the context of invocation i is cancelled while the step at its pc runs. The
\* SDK call in flight returns the context's error; decoding, resizing and
\* encoding never look at the context and run to their end; a Put that is
\* aborted may already have reached the service (landed)
Cancel(i, landed) ==
    /\ inv[i].pc \in {"download", "detect", "thumbnail", "save"}
    /\ LET body == inv[i].imageBytes
           n == Cur(i)
           thumb == ThumbnailBytes(body)
       IN  CASE inv[i].pc = "download" ->
                 /\ inv' = [inv EXCEPT ![i] = FailRecord(i, "Download",
                       Canceled(<<"failed to download image",
                                  IF landed /\ n.key \in DOMAIN store
                                  THEN "failed to read S3 object body"
                                  ELSE "S3 GetObject failed">>))]
                 /\ UNCHANGED <<store, table, emitted, thumbPuts>>
             [] inv[i].pc = "detect" ->
                 /\ inv' = [inv EXCEPT ![i] = FailRecord(i, "Detect",
                       Canceled(<<"failed to detect labels",
                                  "Rekognition DetectLabels failed">>))]
                 /\ UNCHANGED <<store, table, emitted, thumbPuts>>
             [] inv[i].pc = "thumbnail" /\ ~Decodable(body) ->
                 /\ inv' = [inv EXCEPT ![i] =
                       ThumbnailFailed(i, "Decode", "failed to decode image")]
                 /\ UNCHANGED <<store, table, emitted, thumbPuts>>
             [] inv[i].pc = "thumbnail" /\ Decodable(body) /\ ~EncodeOk(thumb.w, thumb.h) ->
                 /\ inv' = [inv EXCEPT ![i] =
                       ThumbnailFailed(i, "Encode", "failed to encode thumbnail")]
                 /\ UNCHANGED <<store, table, emitted, thumbPuts>>
             [] inv[i].pc = "thumbnail" /\ Decodable(body) /\ EncodeOk(thumb.w, thumb.h) ->
                 /\ inv' = [inv EXCEPT ![i] = FailRecord(i, "ThumbnailPut",
                       Canceled(<<"failed to generate thumbnail",
                                  "failed to upload thumbnail to S3">>))]
                 /\ IF landed
                    THEN /\ store' = PutObject(store, ThumbnailKey(n.key), thumb)
                         /\ emitted' = emitted \cup {Notification(ThumbnailKey(n.key), thumb)}
                         /\ thumbPuts' = thumbPuts \cup
                               {[src |-> n.key, from |-> body, dst |-> ThumbnailKey(n.key),
                                 bytes |-> thumb]}
                    ELSE UNCHANGED <<store, emitted, thumbPuts>>
                 /\ UNCHANGED table
             [] inv[i].pc = "save" ->
                 /\ inv' = [inv EXCEPT ![i] = FailRecord(i, "MetadataPut",
                       Canceled(<<"failed to save metadata", "DynamoDB PutItem failed">>))]
                 /\ IF landed
                    THEN table' = PutItem(table,
                            ImageMetadata(n.bucket, n.key, n.size, inv[i].labels,
                                          inv[i].thumbnailKey, now))
                    ELSE UNCHANGED table
                 /\ UNCHANGED <<store, emitted, thumbPuts>>
    /\ UNCHANGED <<now, uploads, deliveries>>
    /\ UNCHANGED <<apiVars, frontVars>>

\* one invocation per slot, from its start to its return
NextCancel ==
    \/ \E key \in ClientKeys, body \in ClientBodies : Upload(key, body)
    \/ \E i \in Slots, batch \in Batches : Invoke(i, batch)
    \/ \E i \in Slots, outcome \in {"ok", "get", "read"} : Download(i, outcome)
    \/ \E i \in Slots, resp \in DetectorOutcomes : Detect(i, resp)
    \/ \E i \in Slots, putOk \in BOOLEAN : Thumbnail(i, putOk)
    \/ \E i \in Slots, putOk \in BOOLEAN, t \in {now, now + 1} : Save(i, putOk, t)
    \/ \E i \in Slots, landed \in BOOLEAN : Cancel(i, landed)

SpecCancel == Init /\ [][NextCancel]_vars

\* ----------------------------------------- a batch delivered until it succeeds
\* two objects and the notifications of their creation
BatchKeys == <<(<<"images", "a">>), (<<"images", "b">>)>>
\* images whose thumbnail can be made
GoodBodies ==
    {b \in StoredBodies : Decodable(b) /\ EncodeOk(ThumbnailWidth, ResizeHeight(b.w, b.h))}

\* the notification source delivers the notifications as one batch, in either
\* order, or the first one alone
InitBatch ==
    \E a \in GoodBodies, b \in {RawText, Jpeg600}, order \in {<<1>>, <<1, 2>>, <<2, 1>>} :
        LET objects == <<a, b>>
            note == [k \in 1 .. 2 |-> Notification(BatchKeys[k], objects[k])]
        IN  /\ store = PutObject(PutObject(<<>>, BatchKeys[1], a), BatchKeys[2], b)
            /\ table = {}
            /\ emitted = {note[1], note[2]}
            /\ inv = [i \in Slots |->
                        IF i = 1
                        THEN [IdleInv EXCEPT !.pc = "download", !.idx = 1,
                                             !.batch = [k \in 1 .. Len(order) |-> note[order[k]]]]
                        ELSE IdleInv]
            /\ now = 0
            /\ uploads = 2
            /\ deliveries = Len(order)
            /\ thumbPuts = {}
            /\ request = NoRequest
            /\ response = NoResponse
            /\ presigned = <<>>
            /\ issued = <<>>
            /\ InitFront

\* the runtime delivers again, as often as it takes, a batch whose invocation
\* returned an error
Redeliver(i) ==
    /\ inv[i].pc = "returned"
    /\ inv[i].err # NoErr
    /\ inv' = [inv EXCEPT ![i] = [IdleInv EXCEPT !.pc = "download", !.batch = inv[i].batch,
                                                !.idx = 1, !.prevErr = inv[i].err]]
    /\ UNCHANGED <<store, table, emitted, now, uploads, deliveries, thumbPuts>>
    /\ UNCHANGED <<apiVars, frontVars>>

\* the steps of the invocation, the clock standing still
NextBatch ==
    \/ \E outcome \in {"ok", "get", "read"} : Download(1, outcome)
    \/ \E resp \in DetectorOutcomes : Detect(1, resp)
    \/ \E putOk \in BOOLEAN : Thumbnail(1, putOk)
    \/ \E putOk \in BOOLEAN : Save(1, putOk, now)
    \/ Redeliver(1)

\* the invocation keeps running, every failed batch is delivered again, and
\* each external call succeeds in the end for each record of the batch
BatchFairness ==
    /\ WF_vars(NextBatch)
    /\ \A k \in 1 .. 2 :
        /\ SF_vars(inv[1].idx = k /\ Download(1, "ok"))
        /\ SF_vars(inv[1].idx = k /\ \E resp \in DetectorOutcomes : ~resp.failed /\ Detect(1, resp))
        /\ SF_vars(inv[1].idx = k /\ Thumbnail(1, TRUE))
        /\ SF_vars(inv[1].idx = k /\ Save(1, TRUE, now))

SpecBatch == InitBatch /\ [][NextBatch]_vars /\ BatchFairness

\* --------------------------------------- the front end's upload route (POST)
MaxRouteRequests == 7    \* requests the limiter lets through in one behaviour

MAX_UPLOADS == 5
WINDOW_MS == 60000

ClientIps == {"203.0.113.7", "203.0.113.8"}
\* "my cat.jpg" and "" as file names
FileNames == {<<109, 121, 32, 99, 97, 116, 46, 106, 112, 103>>, <<>>}

\* fileName.replace(/[^a-zA-Z0-9.-]/g, '_')
SanitizeChar(c) ==
    IF \/ c \in 48 .. 57 \/ c \in 65 .. 90 \/ c \in 97 .. 122 \/ c \in {45, 46}
    THEN c ELSE 95
Sanitize(name) == [k \in 1 .. Len(name) |-> SanitizeChar(name[k])]

\* `${timestamp}-${sanitizedFileName}`
RouteKey(t, name) == Itoa(t) \o <<45>> \o Sanitize(name)

\* record && now < record.resetAt
InWindow(limits, ip, t) == ip \in DOMAIN limits /\ t < limits[ip].resetAt

\* the limiter: refuse, count the request in the running window, or start a
\* new window with it
Limiter(limits, ip, t) ==
    IF InWindow(limits, ip, t)
    THEN IF limits[ip].count >= MAX_UPLOADS
         THEN [refused |-> TRUE, limits |-> limits]
         ELSE [refused |-> FALSE, limits |-> [limits EXCEPT ![ip].count = @ + 1]]
    ELSE [refused |-> FALSE,
          limits |-> (ip :> [count |-> 1, resetAt |-> t + WINDOW_MS]) @@ limits]

\* once the map holds more than 1000 entries, those whose window is over go
CleanUp(limits, t) ==
    IF Cardinality(DOMAIN limits) > 1000
    THEN [k \in {j \in DOMAIN limits : ~(t > limits[j].resetAt)} |-> limits[k]]
    ELSE limits

\* POST of the upload route, at clock reading t (Date.now(), milliseconds)
RouteUpload(originOk, ip, name, contentType, signOk, t) ==
    /\ t >= now /\ t <= 2 * WINDOW_MS
    /\ now' = t
    /\ IF ~originOk
       THEN /\ response' = Response(403, ErrorBody("Forbidden"))
            /\ UNCHANGED <<rateLimit, admitted>>
       ELSE LET lim == Limiter(rateLimit, ip, t)
            IN  IF lim.refused
                THEN /\ response' = Response(429,
                           ErrorBody("Too many upload requests. Please try again later."))
                     /\ UNCHANGED <<rateLimit, admitted>>
                ELSE /\ Cardinality(admitted) < MaxRouteRequests
                     /\ rateLimit' = CleanUp(lim.limits, t)
                     /\ admitted' = admitted \cup
                          {[ip |-> ip, at |-> t,
                            nth |-> 1 + Cardinality({a \in admitted : a.ip = ip})]}
                     /\ response' =
                          IF name = <<>> \/ contentType = ""
                          THEN Response(400, ErrorBody("fileName and contentType are required"))
                          ELSE IF ~AllowedContentType(contentType)
                          THEN Response(400, ErrorBody("Only JPEG and PNG images are allowed"))
                          ELSE IF ~signOk
                          THEN Response(500, ErrorBody("Failed to generate upload URL"))
                          ELSE Response(200, [uploadUrl |-> RouteKey(t, name),
                                              key |-> RouteKey(t, name)])
    /\ UNCHANGED <<store, table, emitted, inv, uploads, deliveries, thumbPuts>>
    /\ UNCHANGED <<request, presigned, issued, client, gallery>>

\* the clock readings of the next request: at once, just before a minute has
\* passed, or a minute later
RouteClock == {now, now + WINDOW_MS - 1, now + WINDOW_MS}

NextRoute ==
    \E originOk \in BOOLEAN, ip \in ClientIps, name \in FileNames,
       contentType \in {"image/jpeg", "image/gif"}, signOk \in BOOLEAN, t \in RouteClock :
        RouteUpload(originOk, ip, name, contentType, signOk, t)

SpecRoute == Init /\ [][NextRoute]_vars

\* ------------------------------------------ the browser's upload flow
MaxAttempts == 10

\* GET of the front end's images route with a key: GetCommand on image_key
RouteGetItem(key) ==
    LET found == {r \in table : r.image_key = key}
    IN  Response(200, [item |-> IF found = {} THEN <<>> ELSE CHOOSE r \in found : TRUE])

\* response.ok, and data.item is there and truthy
ItemSeen(answer) ==
    /\ answer.status = 200
    /\ "item" \in DOMAIN answer.body
    /\ answer.body.item # <<>>

\* onDrop -> uploadToS3: the size is checked before anything is sent
ClientDrop(size) ==
    /\ client.status = "idle"
    /\ client' = IF size > MaxUploadBytes
                 THEN [NoClient EXCEPT !.status = "error"]
                 ELSE [NoClient EXCEPT !.status = "uploading"]
    /\ UNCHANGED <<pipelineVars, apiVars, rateLimit, admitted, gallery>>

\* uploadToS3: POST /upload, answered by handleUpload at clock reading t
ClientGetTicket(body, t, signOk) ==
    /\ client.status = "uploading" /\ client.key = <<>>
    /\ t \in {now, now + 1}
    /\ t <= ClockStart + MaxTickets
    /\ Len(issued) < MaxTickets
    /\ LET out == HandleUpload(body, t, signOk)
       IN  /\ client' = IF out.response.status = 200
                        THEN [client EXCEPT !.key = out.response.body.key]
                        ELSE [client EXCEPT !.status = "error"]
           /\ issued' = issued \o out.keys
           /\ response' = out.response
           /\ presigned' = out.presigned
    /\ request' = [method |-> "POST", path |-> ApiPrefix \o UploadPath, query |-> NoQuery,
                   body |-> body]
    /\ now' = IF ReadsClock(body) THEN t ELSE now
    /\ UNCHANGED <<store, table, emitted, inv, uploads, deliveries, thumbPuts>>
    /\ UNCHANGED <<rateLimit, admitted, gallery>>

\* uploadToS3: PUT of the file to the presigned URL; the bucket notifies
ClientPut(body, ok) ==
    /\ client.status = "uploading" /\ client.key # <<>>
    /\ IF ok
       THEN /\ store' = PutObject(store, client.key, body)
            /\ emitted' = emitted \cup {Notification(client.key, body)}
            /\ client' = [client EXCEPT !.status = "analyzing"]
       ELSE /\ client' = [client EXCEPT !.status = "error"]
            /\ UNCHANGED <<store, emitted>>
    /\ UNCHANGED <<table, inv, now, uploads, deliveries, thumbPuts>>
    /\ UNCHANGED <<apiVars, rateLimit, admitted, gallery>>

\* a run of the pipeline for notification n went through all its steps: the
\* record it saves
Processed(n, resp) ==
    /\ n \in emitted
    /\ n.key \in DOMAIN store /\ Decodable(store[n.key])
    /\ table' = PutItem(table,
          ImageMetadata(n.bucket, n.key, n.size, ConvertLabels(resp),
                        ThumbnailsDir \o n.key, now))
    /\ UNCHANGED <<store, emitted, inv, now, uploads, deliveries, thumbPuts>>
    /\ UNCHANGED <<apiVars, frontVars>>

\* pollForResults, one turn of the loop: GET /images?key=..., answered by the
\* API's handleGetImages or by the front end's own route; a fetch that fails
\* or is not ok is passed over
ClientPoll(backend, fetchOk, scan) ==
    /\ client.status = "analyzing" /\ ~client.found
    /\ client.attempts < MaxAttempts
    /\ scan \in ScanResults(table)
    /\ LET query == [NoQuery EXCEPT !.key = client.key]
           answer == IF backend = "api"
                     THEN HandleGetImages(query, scan, {}).response
                     ELSE RouteGetItem(client.key)
       IN  client' = [client EXCEPT !.attempts = @ + 1,
                                    !.found = fetchOk /\ ItemSeen(answer)]
    /\ UNCHANGED <<pipelineVars, apiVars, rateLimit, admitted, gallery>>

\* uploadToS3 after pollForResults has returned, by its return or by the end of
\* its loop
ClientComplete ==
    /\ client.status = "analyzing"
    /\ client.found \/ client.attempts >= MaxAttempts
    /\ client' = [client EXCEPT !.status = "completed"]
    /\ UNCHANGED <<pipelineVars, apiVars, rateLimit, admitted, gallery>>

\* the timers that put the component back to 'idle'
ClientReset ==
    /\ client.status \in {"completed", "error"}
    /\ client' = NoClient
    /\ UNCHANGED <<pipelineVars, apiVars, rateLimit, admitted, gallery>>

NextClient ==
    \/ \E size \in {Jpeg600.size, MaxUploadBytes + 1} : ClientDrop(size)
    \/ \E body \in {b \in UploadBodies : b.size = Jpeg600.size}, t \in {now, now + 1},
          signOk \in BOOLEAN : ClientGetTicket(body, t, signOk)
    \/ \E ok \in BOOLEAN : ClientPut(Jpeg600, ok)
    \/ \E n \in emitted : Processed(n, <<Dog, Cat>>)
    \/ \E backend \in {"api", "route"}, fetchOk \in BOOLEAN, scan \in ScanResults(table) :
          ClientPoll(backend, fetchOk, scan)
    \/ ClientComplete
    \/ ClientReset

SpecClient == InitApi /\ [][NextClient]_vars

\* ------------------------------------------ the gallery paging through List
MaxPage == 4             \* pages asked for in one series
GalleryLimit == 10
\* the limit of a series of pages: one record a page, the
\* gallery's own, and one whose multiples leave int's range
PagerLimits == {1, GalleryLimit, (MaxInt + 1) \div 2}

\* the image_key of each item of a page, in the page's order
PageKeys(items) == [i \in 1 .. Len(items) |-> items[i].image_key]

\* fetchImages(pageNum): GET /images?limit=..&page=.., answered by
\* handleGetImages; page 1 replaces the list, a later page is appended to it,
\* and an answer that is not ok leaves the list as it is
FetchImages(pageNum, limit, scan) ==
    /\ pageNum <= MaxPage
    /\ scan \in ScanResults(table)
    /\ LET query == [page |-> Itoa(pageNum), limit |-> Itoa(limit), key |-> <<>>]
           answer == HandleGetImages(query, scan, {}).response
           data == answer.body
       IN  gallery' =
             IF answer.status # 200
             THEN [gallery EXCEPT !.error = TRUE]
             ELSE IF pageNum = 1
             THEN [limit |-> limit, pages |-> <<PageKeys(data.items)>>,
                   more |-> <<data.has_more>>, totalCount |-> data.total_count,
                   error |-> FALSE, listed |-> {r.image_key : r \in table},
                   quiet |-> TRUE]
             ELSE [gallery EXCEPT !.pages = Append(@, PageKeys(data.items)),
                                  !.more = Append(@, data.has_more),
                                  !.totalCount = data.total_count,
                                  !.error = FALSE]
    /\ UNCHANGED <<pipelineVars, apiVars, rateLimit, admitted, client>>

\* useEffect: the list is fetched from page 1 on mount and on every refresh
Refresh(limit, scan) == FetchImages(1, limit, scan)

\* handleLoadMore: the next page while the last answer said has_more
HandleLoadMore(scan) ==
    /\ gallery.pages # <<>>
    /\ gallery.more[Len(gallery.more)]
    /\ FetchImages(Len(gallery.pages) + 1, gallery.limit, scan)

\* a client of the API that asks for the next page although the last answer
\* said there is none
AskPastEnd(scan) ==
    /\ gallery.pages # <<>>
    /\ ~gallery.more[Len(gallery.more)]
    /\ FetchImages(Len(gallery.pages) + 1, gallery.limit, scan)

\* saveMetadata of a pipeline run for the object images/<n>, between two
\* fetches: its record is inserted, or written over the one of an earlier run
SavedBetween(n) ==
    /\ table' = PutItem(table,
          ImageMetadata(BucketName, StoredKey(n), Jpeg600.size, ConvertLabels(<<Dog, Cat>>),
                        ThumbnailsDir \o StoredKey(n), now))
    /\ gallery' = [gallery EXCEPT !.quiet = FALSE]
    /\ UNCHANGED <<store, emitted, inv, now, uploads, deliveries, thumbPuts>>
    /\ UNCHANGED <<apiVars, rateLimit, admitted, client>>

\* the table holds the records of any of the objects images/1 .. images/MaxRecords
InitPaging ==
    /\ store = <<>>
    /\ table \in SUBSET StoredTable(MaxRecords)
    /\ emitted = {}
    /\ inv = [i \in Slots |-> IdleInv]
    /\ now = ClockStart
    /\ uploads = 0
    /\ deliveries = 0
    /\ thumbPuts = {}
    /\ request = NoRequest
    /\ response = NoResponse
    /\ presigned = <<>>
    /\ issued = <<>>
    /\ InitFront

NextPaging ==
    \/ \E limit \in PagerLimits, scan \in ScanResults(table) : Refresh(limit, scan)
    \/ \E scan \in ScanResults(table) : HandleLoadMore(scan)
    \/ \E scan \in ScanResults(table) : AskPastEnd(scan)
    \/ \E n \in 1 .. MaxRecords : SavedBetween(n)

SpecPaging == InitPaging /\ [][NextPaging]_vars

\* ------------------------------------------------------------- properties
\* strings.HasPrefix(key, "thumbnails/")
HasThumbnailPrefix(key) == Len(key) > 0 /\ key[1] = ThumbnailPrefix

\* the calls on the pipeline's collaborators, as the log names them
Collaborators == {"Download", "Detect", "ThumbnailPut", "MetadataPut"}
FixedOrder == <<"Download", "Detect", "ThumbnailPut", "MetadataPut">>

\* what invocation i logged for its r-th notification
RecordLog(i, r) == SelectSeq(inv[i].log, LAMBDA e : e.rec = r)
Calls(i, r) == SelectSeq(inv[i].log, LAMBDA e : e.rec = r /\ e.step \in Collaborators)
StepNames(entries) == [j \in 1 .. Len(entries) |-> entries[j].step]
IsPrefix(s, t) == Len(s) <= Len(t) /\ s = SubSeq(t, 1, Len(s))

ReturnedOk(i) == inv[i].pc = "returned" /\ inv[i].err = NoErr
ReturnedErr(i) == inv[i].pc = "returned" /\ inv[i].err # NoErr

\* the step invocation i takes from this state to the next is a metadata Put
\* that succeeds
SaveSucceeds(i) ==
    /\ inv[i].pc = "save"
    /\ Len(inv'[i].log) = Len(inv[i].log) + 1
    /\ inv'[i].log[Len(inv'[i].log)] = [rec |-> inv[i].idx, step |-> "MetadataPut", ok |-> TRUE]

MetadataFields == {"image_key", "bucket_name", "image_size", "processed_at",
                   "detected_labels", "thumbnail_key"}

\* C1: a notification whose key starts with "thumbnails/" is a no-op: the
\* pipeline takes no step (no Download, Detect, thumbnail Put or metadata Put)
\* for it.
C1_ThumbnailNotificationIsNoOp ==
    \A i \in Slots : \A e \in DOMAIN inv[i].log :
        ~HasThumbnailPrefix(inv[i].batch[inv[i].log[e].rec].key)

\* C2: a thumbnail the pipeline wrote never causes another thumbnail to be
\* generated: no thumbnail Put has for its source an object that a thumbnail
\* Put wrote.
C2_ThumbnailNeverRegenerated ==
    \A p \in thumbPuts : \A q \in thumbPuts : q.dst # p.src

\* C3: every stored record is fully populated, with a non-empty thumbnailKey,
\* and a record is written only by a run whose Download, Detect and thumbnail
\* Put for that notification all succeeded.
C3_Populated ==
    \A r \in table :
        /\ DOMAIN r = MetadataFields
        /\ r.image_key # <<>>
        /\ r.bucket_name # ""
        /\ r.thumbnail_key # <<>>

C3_WrittenAfterAllSteps ==
    \A r \in table' \ table : \E i \in Slots :
        /\ inv[i].pc = "save"
        /\ Cur(i).key = r.image_key
        /\ RecordLog(i, inv[i].idx) =
             << [rec |-> inv[i].idx, step |-> "Download", ok |-> TRUE],
                [rec |-> inv[i].idx, step |-> "Detect", ok |-> TRUE],
                [rec |-> inv[i].idx, step |-> "ThumbnailPut", ok |-> TRUE] >>

C3_RecordAbsentOrComplete == [](C3_Populated) /\ [][C3_WrittenAfterAllSteps]_vars

C3_Witness ==
    \E i \in Slots : \E r \in table :
        /\ ReturnedOk(i)
        /\ r.image_key = Cur(i).key
        /\ r.thumbnail_key = <<ThumbnailPrefix>> \o r.image_key

C5_FixedOrderEachOnce ==
    \A i \in Slots : \A r \in 1 .. Len(inv[i].batch) :
        LET all == RecordLog(i, r)
        IN  /\ IsPrefix(StepNames(Calls(i, r)), FixedOrder)
            /\ \A e \in 1 .. Len(all) - 1 : all[e].ok

C5_Witness ==
    \E i \in Slots : \E r \in 1 .. Len(inv[i].batch) :
        /\ StepNames(Calls(i, r)) = FixedOrder
        /\ \A e \in 1 .. 4 : Calls(i, r)[e].ok

\* C6: running the pipeline twice on one notification leaves exactly one
\* record for its key, and two thumbnail Puts made from the same object bytes
\* under the same key write the same bytes to the same place.
C6_Idempotent ==
    /\ \A r1 \in table : \A r2 \in table : r1.image_key = r2.image_key => r1 = r2
    /\ \A p \in thumbPuts : \A q \in thumbPuts :
          (p.src = q.src /\ p.from = q.from) => (p.dst = q.dst /\ p.bytes = q.bytes)
    /\ \A i \in Slots :
          (ReturnedOk(i) /\ Len(inv[i].batch) = 2 /\ inv[i].batch[1] = inv[i].batch[2])
          => Cardinality({r \in table : r.image_key = inv[i].batch[1].key}) = 1

C6_Witness ==
    \E i \in Slots :
        /\ ReturnedOk(i)
        /\ Len(inv[i].batch) = 2
        /\ inv[i].batch[1] = inv[i].batch[2]
        /\ Cardinality({r \in table : r.image_key = inv[i].batch[1].key}) = 1
        /\ now = 2

\* C7 (as claimed): once a record is visible none of its fields changes.
C7_NeverUpdated == [][\A r \in table : r \in table']_vars

\* C7 (amended): a record, once visible, stays visible with the same imageKey,
\* bucketName and thumbnailKey; a later successful run for its key overwrites
\* it as a whole, and the record then carries that run's clock reading.
C7_OverwrittenByLaterRun ==
    [][\A r \in table : \E r2 \in table' :
          /\ r2.image_key = r.image_key
          /\ r2.bucket_name = r.bucket_name
          /\ r2.thumbnail_key = r.thumbnail_key
          /\ r2 # r => /\ r2.processed_at = FormatRFC3339(now')
                       /\ \E i \in Slots : SaveSucceeds(i) /\ Cur(i).key = r.image_key]_vars

C7_Witness ==
    \E i \in Slots : \E r \in table :
        /\ ReturnedOk(i)
        /\ Len(inv[i].batch) = 2
        /\ inv[i].batch[1] = inv[i].batch[2]
        /\ r.image_key = inv[i].batch[1].key
        /\ now = 2
        /\ r.processed_at = 1

\* C8: a failure to decode the image does not make the runtime deliver the
\* notification again.
IsDecodeError(err) == Len(err) >= 3 /\ err[3] = "failed to decode image"

C8_DecodeFailureNotRedelivered ==
    \A i \in Slots : ~IsDecodeError(inv[i].prevErr)

\* C9: a failed Download is the only step taken for its notification (no
\* Detect, no thumbnail Put, no metadata Put), it ends the notification with
\* an error, and it leaves the object store and the metadata table unchanged.
C9_DownloadFailureLog ==
    \A i \in Slots : \A e \in DOMAIN inv[i].log :
        (inv[i].log[e].step = "Download" /\ ~inv[i].log[e].ok) =>
            /\ e = Len(inv[i].log)
            /\ ReturnedErr(i)
            /\ RecordLog(i, inv[i].log[e].rec) = <<inv[i].log[e]>>

C9_DownloadFailureStep ==
    \A i \in Slots :
        (inv[i].pc = "download" /\ inv'[i].pc # "download" /\ inv'[i].pc # "detect")
        => (store' = store /\ table' = table /\ ReturnedErr(i)')

C9_DownloadFailureAborts == [](C9_DownloadFailureLog) /\ [][C9_DownloadFailureStep]_vars

C9_Witness ==
    \E i \in Slots :
        /\ ReturnedErr(i)
        /\ inv[i].log[Len(inv[i].log)] = [rec |-> inv[i].idx, step |-> "Download", ok |-> FALSE]
        /\ inv[i].err[2] = "failed to download image"

\* C10: a successful run for the notification {b, k, s} with detector response
\* L leaves exactly the record {imageKey k, bucketName b, imageSize s,
\* thumbnailKey "thumbnails/" + k, detectedLabels L} under k, and the
\* thumbnail object under "thumbnails/" + k.
C10_RunWritesRecord ==
    [][\A i \in Slots : SaveSucceeds(i) =>
          LET n == Cur(i)
              written == {r \in table' : r.image_key = n.key}
          IN  /\ Cardinality(written) = 1
              /\ \A r \in written :
                    /\ r.bucket_name = n.bucket
                    /\ r.image_size = n.size
                    /\ r.thumbnail_key = <<"thumbnails">> \o n.key
                    /\ r.detected_labels = inv[i].detected
              /\ (<<"thumbnails">> \o n.key) \in DOMAIN store']_vars

C10_Witness ==
    \E i \in Slots : \E r \in table :
        /\ ReturnedOk(i)
        /\ r.image_key = Cur(i).key
        /\ r.image_size = Cur(i).size
        /\ r.detected_labels = <<Dog, Cat>>
        /\ r.thumbnail_key \in DOMAIN store

\* ------------------------------------------- properties of the API service
\* the request served last went to handleGetImages / handleUpload
IsListRequest == Route(request.method, request.path) = "handleGetImages"
IsUploadRequest == Route(request.method, request.path) = "handleUpload"
\* handleGetImages answered with a page
ListAnswered == IsListRequest /\ response.status = 200
Panicked == "panic" \in DOMAIN response.body

\* the stored records whose image_key is key
RecordsWithKey(key) == {r \in table : r.image_key = key}

\* C11: a request for the record of a key (GET /images?key=k) is answered with
\* the stored record whose image_key is k, or with none when no record has
\* that key, and nothing is signed for it
C11_LookupReturnsRecord ==
    IsListRequest /\ request.query.key # <<>> /\ response.status # 500 =>
        /\ response.status = 200
        /\ "item" \in DOMAIN response.body
        /\ IF RecordsWithKey(request.query.key) = {}
           THEN response.body.item = <<>>
           ELSE response.body.item \in RecordsWithKey(request.query.key)
        /\ presigned = <<>>

\* rank of a stored record among all stored records, by image_key descending
Rank(r) == 1 + Cardinality({x \in table : StrLess(r.image_key, x.image_key)})
\* an item as stored: without the url the signing loop attached
Unsigned(item) == [f \in DOMAIN item \ {"url"} |-> item[f]]
Min(a, b) == IF a < b THEN a ELSE b

\* C12: List(page, limit) returns exactly the records at ranks
\* (page-1)*limit+1 .. min(page*limit, total) of all stored records sorted by
\* image_key descending, and nothing when (page-1)*limit >= total
C12_PageIsRankSlice ==
    IsListRequest /\ response.status # 500 =>
        /\ response.status = 200
        /\ LET b == response.body
               total == Cardinality(table)
               first == (b.page - 1) * b.limit
               last == Min(b.page * b.limit, total)
           IN  /\ Len(b.items) = IF first >= total THEN 0 ELSE last - first
               /\ \A i \in 1 .. Len(b.items) :
                    /\ Unsigned(b.items[i]) \in table
                    /\ Rank(Unsigned(b.items[i])) = first + i

\* C13: for every page >= 1 and limit > 0, has_more is true exactly when
\* page*limit < total_count
C13_HasMoreExact ==
    ListAnswered =>
        response.body.has_more =
            (response.body.page * response.body.limit < response.body.total_count)

\* C14: total_count of every List answer is the number of records the
\* metadata table holds
C14_TotalCountIsTableSize ==
    ListAnswered => response.body.total_count = Cardinality(table)

\* the keys whose presign call failed while the last request was served
FailedKeys == {presigned[i].call.key : i \in {j \in 1 .. Len(presigned) : ~presigned[j].ok}}

\* the pagination fields of a List answer
Pagination(b) == <<b.total_count, b.page, b.limit, b.has_more>>

\* C15: when presigning fails for some items of a page, List answers 200 with
\* what it answers when no presign call fails, except that exactly the items
\* whose presign call failed have no url field
C15_SigningFailureKeepsItems ==
    IsListRequest /\ FailedKeys # {} =>
        /\ response.status = 200
        /\ \E scan \in ScanResults(table) :
             LET clean == HandleGetImages(request.query, scan, {}).response
                 got == response.body
             IN  /\ clean.status = 200
                 /\ Pagination(got) = Pagination(clean.body)
                 /\ Len(got.items) = Len(clean.body.items)
                 /\ \A i \in 1 .. Len(got.items) :
                      IF DisplayKey(clean.body.items[i]) \in FailedKeys
                      THEN /\ "url" \notin DOMAIN got.items[i]
                           /\ got.items[i] = Unsigned(clean.body.items[i])
                      ELSE /\ "url" \in DOMAIN got.items[i]
                           /\ got.items[i] = clean.body.items[i]

\* a page of two items or more, one signed and one whose presign call failed
C15_Witness ==
    /\ ListAnswered
    /\ \E i, j \in 1 .. Len(response.body.items) :
         /\ "url" \in DOMAIN response.body.items[i]
         /\ "url" \notin DOMAIN response.body.items[j]

\* C16: handleUpload answers a body that is not JSON, or whose contentType is
\* not exactly "image/jpeg" or "image/png", with 400 and an error body, and
\* makes no call to the object store's client
C16_BadContentTypeRejected ==
    IsUploadRequest /\ ~(request.body.valid
                         /\ request.body.contentType \in {"image/jpeg", "image/png"}) =>
        /\ response.status = 400
        /\ DOMAIN response.body = {"error"}
        /\ presigned = <<>>
        /\ store = <<>>

\* a JSON body naming another content type was rejected
C16_Witness ==
    /\ IsUploadRequest
    /\ request.body.valid
    /\ request.body.contentType = "image/bmp"
    /\ response.status = 400

\* C17: every key issued by handleUpload starts with "images/" and no two
\* issued keys are equal
C17_IssuedKeysUnique ==
    /\ \A i \in 1 .. Len(issued) : StrHasPrefix(issued[i], ImagesDir)
    /\ \A i, j \in 1 .. Len(issued) : i < j => issued[i] # issued[j]

\* C18: a key issued later is greater, in the order List sorts by, than every
\* key issued earlier
C18_IssuedKeysIncrease ==
    \A i, j \in 1 .. Len(issued) : i < j => StrLess(issued[i], issued[j])

\* C19: every request to handleGetImages with page >= 1 and limit > 0 gets a
\* response: the handler never panics on the slice of the scanned items
C19_ListNeverPanics ==
    IsListRequest => ~Panicked /\ response.status \in {200, 500}

\* ---------------------------------- properties of concurrent pipeline runs
\* the invocation in slot i is between its first and its last step
InFlight(i) == inv[i].pc \notin {"idle", "returned"}

\* C20: two concurrent pipeline runs for different source keys write
\* different metadata keys and different object keys, and neither reads the
\* object the other writes
C20_RunsForDifferentKeysDisjoint ==
    \A i, j \in Slots :
        i # j /\ InFlight(i) /\ InFlight(j) /\ Cur(i).key # Cur(j).key =>
            /\ HashKey([image_key |-> Cur(i).key]) # HashKey([image_key |-> Cur(j).key])
            /\ ThumbnailKey(Cur(i).key) # ThumbnailKey(Cur(j).key)
            /\ Cur(i).key # ThumbnailKey(Cur(j).key)

\* the invocations in slots i and j were given the same notification n
SameNotification(i, j, n) ==
    /\ i # j
    /\ \E a \in 1 .. Len(inv[i].batch) : inv[i].batch[a] = n
    /\ \E b \in 1 .. Len(inv[j].batch) : inv[j].batch[b] = n

\* the stored records for a key
RecordsFor(key) == {r \in table : r.image_key = key}

\* what a single successful run for notification n stores, processed_at aside
SingleRunRecords(n) ==
    {[image_key |-> n.key, bucket_name |-> n.bucket, image_size |-> n.size,
      detected_labels |-> ConvertLabels(d), thumbnail_key |-> ThumbnailKey(n.key)] :
        d \in DetectorResponses}
WithoutProcessedAt(r) == [f \in DOMAIN r \ {"processed_at"} |-> r[f]]

\* C21: when two runs for the same notification overlap and both succeed, the
\* table holds exactly one record for the key and the store one thumbnail, both
\* what a single run produces (processed_at aside); and in no state does the
\* table hold a record whose thumbnail is missing
C21_DuplicateRunsConverge ==
    /\ \A r \in table : r.thumbnail_key \in DOMAIN store
    /\ \A i, j \in Slots : \A n \in emitted :
         SameNotification(i, j, n) /\ ReturnedOk(i) /\ ReturnedOk(j) =>
            /\ Cardinality(RecordsFor(n.key)) = 1
            /\ \A r \in RecordsFor(n.key) : \E m \in emitted :
                    m.key = n.key /\ WithoutProcessedAt(r) \in SingleRunRecords(m)
            /\ ThumbnailKey(n.key) \in DOMAIN store
            /\ \E p \in thumbPuts :
                 /\ p.src = n.key
                 /\ store[ThumbnailKey(n.key)] = ThumbnailBytes(p.from)

\* two runs, each given the one notification alone, have both returned without
\* error
C21_Witness ==
    \E i, j \in Slots : \E n \in emitted :
        /\ SameNotification(i, j, n)
        /\ ReturnedOk(i) /\ ReturnedOk(j)
        /\ Len(inv[i].batch) = 1 /\ Len(inv[j].batch) = 1
        /\ Cardinality(RecordsFor(n.key)) = 1

\* ------------------------------------------------------------ cancellation
StepMessages == {"failed to download image", "failed to detect labels",
                 "failed to generate thumbnail", "failed to save metadata"}
MessageOf(step) ==
    CASE step = "Download" -> "failed to download image"
      [] step = "Detect" -> "failed to detect labels"
      [] step = "ThumbnailPut" -> "failed to generate thumbnail"
      [] step = "MetadataPut" -> "failed to save metadata"
      [] OTHER -> ""
Messages(err) == {err[k] : k \in 1 .. Len(err)}
CancelledRun(i) == inv[i].err # NoErr /\ inv[i].err[Len(inv[i].err)] = ContextCanceled

\* C22 as stated: a run whose context was cancelled reports a cancellation
\* error and not the error of the step that was running
C22_ReportsCancellationNotStep ==
    \A i \in Slots : CancelledRun(i) => Messages(inv[i].err) \cap StepMessages = {}

\* C22: a run whose context was cancelled during a collaborator call has
\* returned, that call is the last thing it started (the steps before it, in the
\* fixed order, all succeeded), and it reports the error of that step: the
\* record's failure, the step's message and the call's message wrapping the
\* context's error
C22_CancellationWrappedInStepError ==
    \A i \in Slots : CancelledRun(i) =>
        LET log == RecordLog(i, inv[i].idx)
            last == inv[i].log[Len(inv[i].log)]
        IN  /\ inv[i].pc = "returned"
            /\ last.rec = inv[i].idx /\ ~last.ok /\ last.step \in Collaborators
            /\ IsPrefix(StepNames(log), FixedOrder)
            /\ \A k \in 1 .. Len(log) - 1 : log[k].ok
            /\ Len(inv[i].err) = 4
            /\ inv[i].err[1] = "failed to process record"
            /\ inv[i].err[2] = MessageOf(last.step)
            /\ inv[i].err[3] \notin StepMessages \cup {ContextCanceled}

\* a run was cancelled while it put the thumbnail, and the Put had reached the
\* bucket
C22_Witness ==
    \E i \in Slots :
        /\ CancelledRun(i)
        /\ inv[i].log[Len(inv[i].log)].step = "ThumbnailPut"
        /\ ThumbnailKey(Cur(i).key) \in DOMAIN store

\* ------------------------------------------- properties of the whole service
\* C23: no request to the service, whatever its route and its outcome, changes
\* the metadata table or the object store
C23_StoresUnchanged == [][table' = table /\ store' = store]_vars

\* a listing has been answered from a table that holds records, after an upload
\* ticket was issued
C23_Witness ==
    /\ Len(issued) >= 1
    /\ table # {}
    /\ Route(request.method, request.path) = "handleGetImages"
    /\ response.status = 200

\* the path with a leading "/api" removed
WithoutApi(path) == IF StrHasPrefix(path, ApiPrefix) THEN SubSeq(path, 5, Len(path)) ELSE path
IsReadUrlRequest == request.method = "GET" /\ WithoutApi(request.path) = ImageUrlPath
ReadUrl(key) == [op |-> "GetObject", bucket |-> BucketName, key |-> key,
                 contentType |-> "", expires |-> 60 * 60]

\* C24: a read-URL request without a key is answered 400 and no presign call is
\* made; with a key it is answered 200 with a GET URL signed for that key in the
\* bucket, valid one hour, or 500 with an error body when signing failed
C24_ReadUrlForExactKey ==
    IsReadUrlRequest =>
        IF request.query.key = <<>>
        THEN /\ response.status = 400
             /\ DOMAIN response.body = {"error"}
             /\ presigned = <<>>
        ELSE \/ /\ response = Response(200, [url |-> ReadUrl(request.query.key)])
                /\ presigned = <<[call |-> ReadUrl(request.query.key), ok |-> TRUE]>>
             \/ /\ response.status = 500
                /\ DOMAIN response.body = {"error"}
                /\ presigned = <<[call |-> ReadUrl(request.query.key), ok |-> FALSE]>>

\* a read URL was issued for a key given in a path that carries "/api"
C24_Witness ==
    /\ IsReadUrlRequest
    /\ request.path # ImageUrlPath
    /\ request.query.key = StoredKey(1)
    /\ response.status = 200

ListErrors == {"Failed to fetch images"}
ReadUrlErrors == {"Missing key parameter", "Failed to generate image URL"}
UploadErrors == {"Invalid request body", "Only JPEG and PNG images are allowed",
                 "Failed to generate upload URL"}
AnsweredBy(fields, errors) ==
    \/ response.status = 200 /\ DOMAIN response.body = fields
    \/ /\ response.status \in {400, 500}
       /\ DOMAIN response.body = {"error"}
       /\ response.body.error \in errors

\* C25: with a leading "/api" removed from the path, GET /images is answered by
\* the listing, GET /image-url by the read-URL handler and POST /upload by the
\* upload handler; OPTIONS on any path is answered 200 with an empty body and no
\* presign call; every other method and path is answered 404 with an error body
C25_Dispatch ==
    request # NoRequest =>
        LET method == request.method
            path == WithoutApi(request.path)
        IN  IF method = "OPTIONS"
            THEN response = Response(200, [raw |-> ""]) /\ presigned = <<>>
            ELSE IF method = "GET" /\ path = ImagesPath
            THEN AnsweredBy({"items", "total_count", "page", "limit", "has_more"}, ListErrors)
            ELSE IF method = "GET" /\ path = ImageUrlPath
            THEN AnsweredBy({"url"}, ReadUrlErrors)
            ELSE IF method = "POST" /\ path = UploadPath
            THEN AnsweredBy({"uploadUrl", "key"}, UploadErrors)
            ELSE response = Response(404, [error |-> "Not Found"]) /\ presigned = <<>>

\* GET /api/image-url was answered by the read-URL handler
C25_Witness ==
    /\ request.method = "GET"
    /\ request.path = ApiPrefix \o ImageUrlPath
    /\ "url" \in DOMAIN response.body

\* ------------------------------------------------- the urls of a List page
\* the key whose object a page shows for an item
Preferred(item) ==
    IF "thumbnail_key" \in DOMAIN item /\ item.thumbnail_key # <<>> THEN item.thumbnail_key
    ELSE IF "image_key" \in DOMAIN item THEN item.image_key
    ELSE <<>>

\* C26: for each item of a List page a GET URL valid one hour is signed for the
\* item's thumbnail_key when it has one and for its image_key otherwise, and is
\* the item's url; an item with neither key has no url and nothing is signed
\* for it
C26_UrlPrefersThumbnail ==
    ListAnswered =>
        LET items == response.body.items
            wants == [i \in 1 .. Len(items) |-> Preferred(items[i])]
            signable == SelectSeq(wants, LAMBDA k : k # <<>>)
        IN  /\ Len(presigned) = Len(signable)
            /\ \A k \in 1 .. Len(signable) : presigned[k].call = ReadUrl(signable[k])
            /\ \A i \in 1 .. Len(items) :
                 IF "url" \in DOMAIN items[i]
                 THEN wants[i] # <<>> /\ items[i].url = ReadUrl(wants[i])
                 ELSE wants[i] = <<>> \/ wants[i] \in FailedKeys

\* a page with an item that has a thumbnail and an item that has none, both
\* signed
C26_Witness ==
    /\ ListAnswered
    /\ \E i, j \in 1 .. Len(response.body.items) :
         LET a == response.body.items[i]
             b == response.body.items[j]
         IN  /\ a.thumbnail_key # <<>> /\ "url" \in DOMAIN a /\ a.url.key = a.thumbnail_key
             /\ b.thumbnail_key = <<>> /\ "url" \in DOMAIN b /\ b.url.key = b.image_key

\* ------------------------------------------------ the key of an upload ticket
\* the bodies handleUpload lets through
AllowedBodies ==
    {b \in UploadBodies : b.valid /\ b.contentType \in {"image/jpeg", "image/png"}}
TicketIssued == IsUploadRequest /\ response.status = 200

C29_OversizeGetsNoTicket ==
    IsUploadRequest /\ request.body.valid /\ request.body.size >= 5 * 1024 * 1024 =>
        /\ response.status # 200
        /\ "uploadUrl" \notin DOMAIN response.body

\* ----------------------------------------------------- the thumbnail's size
\* h * 300 / w rounded to the nearest integer, halves up
RoundedHeight(w, h) == (2 * h * 300 + w) \div (2 * w)
Max(a, b) == IF a > b THEN a ELSE b

\* C28 as stated: every thumbnail is 300 wide and round(h * 300 / w) high
C28_HeightIsRounded ==
    \A p \in thumbPuts :
        p.bytes.w = 300 /\ p.bytes.h = RoundedHeight(p.from.w, p.from.h)

\* C28: every thumbnail produced is 300 wide and round(h * 300 / w) high, or 1
\* high when that is 0, whether the image is narrower or wider than 300; none
\* is produced with a height of 65536 or more
C28_HeightIsRoundedAtLeastOne ==
    \A p \in thumbPuts :
        /\ Decodable(p.from)
        /\ p.bytes.w = 300
        /\ p.bytes.h = Max(1, RoundedHeight(p.from.w, p.from.h))
        /\ p.bytes.h < 65536

\* the thumbnail of an image so wide that h * 300 / w is less than one half was
\* stored, and is 1 high
C28_Witness ==
    \E p \in thumbPuts :
        /\ 2 * p.from.h * 300 < p.from.w
        /\ p.bytes.h = 1
        /\ p.dst \in DOMAIN store

\* --------------------------------------------------------- the file's type
\* C30: for an object that is neither a JPEG nor a PNG image no thumbnail is
\* written and no metadata record is created
C30_OnlyJpegAndPngProcessed ==
    /\ \A p \in thumbPuts : p.from.fmt \in {"jpeg", "png"}
    /\ \A r \in table : \A n \in emitted :
         n.key = r.image_key /\ n.key \in DOMAIN store =>
            store[n.key].fmt \in {"jpeg", "png"}

\* -------------------------------------------------------- the rate limiter
\* the requests of ip the limiter let through in the minute that starts at t
AdmittedIn(ip, t) == {a \in admitted : a.ip = ip /\ a.at >= t /\ a.at < t + 60000}

\* C31: in any interval of one minute the limiter lets through at most 5
\* requests of one client IP
C31_AtMostFivePerMinute ==
    \A a \in admitted : Cardinality(AdmittedIn(a.ip, a.at)) <= 5

\* ------------------------------------------------- the defaults of a listing
IsDecimal(s) == s # <<>> /\ \A k \in 1 .. Len(s) : s[k] \in 48 .. 57
RECURSIVE DecimalValue(_)
DecimalValue(s) ==
    IF s = <<>> THEN 0 ELSE 10 * DecimalValue(SubSeq(s, 1, Len(s) - 1)) + (s[Len(s)] - 48)
PositiveInteger(s) == IsDecimal(s) /\ DecimalValue(s) > 0
Effective(s, default) == IF PositiveInteger(s) THEN DecimalValue(s) ELSE default

\* C32: a listing request whose page is absent, no integer or not positive is
\* served with page 1, and one whose limit is absent, no integer or not
\* positive with limit 10; it is answered 200 with the values used in its page
\* and limit fields (the scan failing aside)
C32_DefaultsApplied ==
    /\ IsListRequest
    /\ ~PositiveInteger(request.query.page) \/ ~PositiveInteger(request.query.limit)
    /\ response.status # 500
    => /\ response.status = 200
       /\ response.body.page = Effective(request.query.page, 1)
       /\ response.body.limit = Effective(request.query.limit, 10)

\* ------------------------------------------------- the browser's upload flow
\* C33: the upload flow reports 'completed' only after a poll has seen the
\* record of the uploaded key, and polls at most 10 times
C33_CompletedOnlyAfterRecordSeen ==
    /\ client.attempts <= 10
    /\ client.status = "completed" =>
         /\ client.found
         /\ \E r \in table : r.image_key = client.key

\* ------------------------------------------- records and their thumbnails
\* the records a step writes or overwrites
Written == {r \in table' : r \notin table}

ThumbnailStored == \A r \in table : r.thumbnail_key \in DOMAIN store /\ r.bucket_name = BucketName
ThumbnailPutFirst ==
    \A r \in Written :
        /\ r.thumbnail_key \in DOMAIN store
        /\ \E p \in thumbPuts : p.src = r.image_key /\ p.dst = r.thumbnail_key

\* C34: in every state each record's thumbnail_key names an object of the
\* bucket, and every step that writes a record finds the thumbnail of its key
\* already put, however the runs interleave
C34_ThumbnailBeforeRecord == [](ThumbnailStored) /\ [][ThumbnailPutFirst]_vars

\* a record is stored while another run for the same key is about to put the
\* thumbnail again
C34_Witness ==
    \E r \in table : \E i \in Slots :
        /\ inv[i].pc = "thumbnail"
        /\ Cur(i).key = r.image_key
        /\ r.thumbnail_key \in DOMAIN store

\* --------------------------------------------------- failures and writes
\* the step ends invocation i with an error
Fails(i) == inv[i].pc # "returned" /\ inv'[i].pc = "returned" /\ inv'[i].err # NoErr
LastStep(i) == inv[i].log[Len(inv[i].log)]
FailedAtMetadataPut(i) ==
    ReturnedErr(i) /\ LastStep(i).step = "MetadataPut" /\ ~LastStep(i).ok

NothingUndone ==
    \A i \in Slots : Fails(i) => store' = store /\ table' = table
EarlierWritesStay ==
    \A i \in Slots :
        /\ FailedAtMetadataPut(i) =>
             /\ ThumbnailKey(Cur(i).key) \in DOMAIN store
             /\ store[ThumbnailKey(Cur(i).key)].fmt = "jpeg"
        /\ ReturnedErr(i) =>
             \A k \in 1 .. inv[i].idx - 1 :
                /\ ThumbnailKey(inv[i].batch[k].key) \in DOMAIN store
                /\ RecordsFor(inv[i].batch[k].key) # {}

\* C35: the step at which a run fails changes neither the object store nor the
\* table; after a failed metadata Put the thumbnail is still stored (and no
\* record was written with it), and after a batch has failed at one of its
\* notifications the thumbnails and records of the notifications before it are
\* in place
C35_FailureUndoesNothing == [](EarlierWritesStay) /\ [][NothingUndone]_vars

\* the only delivery of a notification failed at the metadata Put: its
\* thumbnail is stored and its key has no record
C35_Witness ==
    \E i \in Slots :
        /\ FailedAtMetadataPut(i)
        /\ ThumbnailKey(Cur(i).key) \in DOMAIN store
        /\ RecordsFor(Cur(i).key) = {}

\* -------------------------------------------------- every image is recorded
\* the notifications of the batch whose object can be decoded
DecodableDelivered ==
    {n \in {inv[1].batch[k] : k \in 1 .. Len(inv[1].batch)} :
        n.key \in DOMAIN store /\ Decodable(store[n.key])}

\* C36: when every failed batch is delivered again and the external calls
\* succeed in the end, every notification of a decodable image gets its record,
\* wherever it stands in its batch
C36_EveryDecodableRecorded ==
    <>(\A n \in DecodableDelivered : RecordsFor(n.key) # {})

\* ------------------------------------------------- paging through the list
\* the keys of the pages fetched so far, one after the other
RECURSIVE Flatten(_)
Flatten(pages) ==
    IF pages = <<>> THEN <<>> ELSE Head(pages) \o Flatten(Tail(pages))
Listing == Flatten(gallery.pages)
TableKeys == {r.image_key : r \in table}

\* C37: over an unchanged table and a fixed limit, the pages 1, 2, 3, ... taken
\* one after the other are in descending image_key order without repetition;
\* once an empty page has come, the pages fetched hold every stored record,
\* their sizes sum to total_count, and every later page is empty
C37_PagesPartitionTheTable ==
    gallery.quiet =>
        /\ \A i, j \in 1 .. Len(Listing) : i < j => StrLess(Listing[j], Listing[i])
        /\ \A p \in 1 .. Len(gallery.pages) :
              gallery.pages[p] = <<>> =>
                /\ {Listing[i] : i \in 1 .. Len(Listing)} = TableKeys
                /\ Len(Listing) = gallery.totalCount
                /\ \A q \in p .. Len(gallery.pages) : gallery.pages[q] = <<>>

\* C38: when records are written between the fetches of pages 1, 2, ..., every
\* record the table held when page 1 was fetched is on one of the pages
\* fetched up to the first answer with has_more false
C38_NoRecordSkipped ==
    \A p \in 1 .. Len(gallery.pages) :
        ~gallery.more[p] =>
            \A k \in gallery.listed :
                \E q \in 1 .. p : \E i \in 1 .. Len(gallery.pages[q]) : gallery.pages[q][i] = k

\* ------------------------------------------------- every request is answered
\* C39: whatever the method, path, query and body and however the scan and the
\* presign calls end, HandleRequest returns a response whose status is 200,
\* 400, 404 or 500; a 500 carries an error body, and a failed presign call of
\* handleUpload or handleGetImageURL is answered with 500
C39_HandleRequestTotal ==
    request # NoRequest =>
        /\ ~Panicked
        /\ response.status \in {200, 400, 404, 500}
        /\ response.status = 500 => DOMAIN response.body = {"error"}
        /\ (IsUploadRequest \/ IsReadUrlRequest)
              /\ (\E i \in 1 .. Len(presigned) : ~presigned[i].ok)
              => response.status = 500

====
